---- MODULE Spec2Model ----
(***************************************************************************)
(* Model of the ZDA gateway core (package zda): the node/device store, the *)
(* provider handler loop, the Devices() snapshot, the event egress queue   *)
(* and the DeviceDiscovery capability.                                     *)
(***************************************************************************)
EXTENDS Integers, Sequences, FiniteSets, TLC

(* ------------------------------ bounds -------------------------------- *)

\* Number of distinct remote Zigbee nodes the provider reports events for.
NumNodes == 2

\* IEEE addresses: 0 is the zero value (no address), 1..NumNodes are remote
\* nodes, and the adapter's own address follows them.
NodeAddrs == 1 .. NumNodes
AdapterIEEE == NumNodes + 1
EventAddrs == NodeAddrs \cup {AdapterIEEE}

(* ---------------------------- identifiers ----------------------------- *)

\* da.Identifier values: a bare IEEE address (the gateway Self device), or an
\* IEEE address with a sub identifier (a device of a node).
IEEEIdentifier(a) == [kind |-> "ieee", ieee |-> a, sub |-> 0]
SubIdentifier(a, s) == [kind |-> "ieeeSub", ieee |-> a, sub |-> s]

\* Capability flags.
DeviceDiscoveryFlag == "DeviceDiscovery"

HasProductInformationFlag == "HasProductInformation"

\* The zero value of da.Device, as built by da.Device{}.
ZeroDevice == [identifier |-> IEEEIdentifier(0), capabilities |-> {}, gateway |-> "nil"]

\* The zero value of capabilities.ProductInformation.
ZeroProductInformation == [manufacturer |-> "", name |-> "", present |-> {}]

\* No internalDevice: a nil pointer.
NilDevice == [identifier |-> IEEEIdentifier(0)]

VARIABLES
    self,          \* z.self.device: the gateway Self device value
    started,       \* "new" | "started" | "failed": outcome of Start()
    nodes,         \* z.nodes: IEEE address -> internalNode
    devices,       \* z.devices: identifier -> internalDevice
    hPc,           \* position of the provider handler goroutine
    hEvent,        \* event returned by the last provider.ReadEvent
    hErr,          \* error returned by the last provider.ReadEvent
    hDevs,         \* devices still to be removed by the leave loop
    pre,           \* the store when the current handler iteration began
    pub,           \* internal events published by the current iteration
    dPc,           \* position of a caller inside Devices()
    dTodo,         \* nodes Devices() has still to visit
    dResult,       \* the slice Devices() is building / has returned
    dStarted,      \* whether the current Devices() call began after Start()
    events,        \* z.events: the buffered egress channel
    sendCount,     \* number of sendEvent calls made so far
    dropped,       \* ordinals of the sendEvent calls whose event was dropped
    delivered,     \* events returned by ReadEvent so far, in order
    rPc,           \* per host reader: "idle" or "waiting" inside ReadEvent
    rCtxDone,      \* per host reader: its context is cancelled
    discovering,   \* ZigbeeDeviceDiscovery: joining is permitted
    allowExpiresAt, \* ZigbeeDeviceDiscovery: expiry of the window, 0 = none
    timerArmed,    \* ZigbeeDeviceDiscovery: the auto-deny timer is pending
    now,           \* the clock
    opCount,       \* number of DeviceDiscovery operations invoked so far
    stopSignal,    \* number of values buffered in z.providerHandlerStop
    cancelled,     \* z.contextCancel() has been called
    sPc,           \* position of the caller of Stop()
    stopCalls,     \* number of Stop() calls made so far
    dispatchedAfterStop, \* events the handler read with a stop signal buffered
    endpointDescriptions, \* per node: iNode.endpointDescriptions
    transactionSequences, \* per node: the counter behind nextTransactionSequence
    endpoints,     \* per device: iDev.endpoints
    productInformation, \* per device: iDev.productInformation
    ePc,           \* position of the task inside NodeEnumerationCallback
    eNode,         \* the node of the internalNodeEnumeration being handled
    eTodo,         \* devices the callback's loop has still to visit
    eDev,          \* the device whose mutex the callback holds
    eFound,        \* found / foundEndpoint of the current device
    eTries,        \* attempts retry.Retry has made for the current device
    eBefore,       \* the current device as it was when its mutex was taken
    eResp,         \* how the read for the current device ended
    seqUnderMutex, \* nextTransactionSequence takes the node mutex
    hostDev,       \* the da.Device value the host passes to ProductInformation
    pPc,           \* position of the caller inside ProductInformation
    pDev,          \* the internalDevice that caller got from getDevice
    op             \* the operation that was just completed, with its result

storeVars == <<nodes, devices>>
handlerVars == <<hPc, hEvent, hErr, hDevs, pre, pub>>
devicesVars == <<dPc, dTodo, dResult, dStarted>>
egressVars == <<events, sendCount, dropped, delivered, rPc, rCtxDone>>
discoveryVars == <<discovering, allowExpiresAt, timerArmed, now, opCount>>
stopVars == <<stopSignal, cancelled, sPc, stopCalls, dispatchedAfterStop>>
enumVars == <<ePc, eNode, eTodo, eDev, eFound, eTries, eBefore, eResp, seqUnderMutex>>
hostVars == <<hostDev, pPc>>
nodeFieldVars == <<endpointDescriptions, transactionSequences>>
deviceFieldVars == <<endpoints, productInformation>>
productVars == <<nodeFieldVars, deviceFieldVars, enumVars, hostVars, pDev>>
auxVars == <<egressVars, discoveryVars, stopVars, productVars, op>>

(* --------------------------- node/device store ------------------------ *)

\* A freshly added node: no devices yet.
NewNode(a) == [ieeeAddress |-> a, devices |-> <<>>]

\* A freshly added device of this gateway: no capabilities yet.
NewDevice(id) == [identifier |-> id, capabilities |-> {}, gateway |-> "zgw"]

\* The identifiers devices get.
DeviceIds == {SubIdentifier(a, 0) : a \in EventAddrs}

\* The other fields of the internalNode and internalDevice objects, kept per
\* address and per identifier; for one that is not stored they are those of
\* a fresh object.
FreshNodeFields ==
    /\ endpointDescriptions = [a \in EventAddrs |-> <<>>]
    /\ transactionSequences = [a \in EventAddrs |-> 0]
FreshDeviceFields ==
    /\ endpoints = [id \in DeviceIds |-> <<>>]
    /\ productInformation = [id \in DeviceIds |-> ZeroProductInformation]

getNode(a) == a \in DOMAIN nodes

getDevice(id) == id \in DOMAIN devices

getDevices(a) == nodes[a].devices

SeqRange(s) == {s[i] : i \in 1 .. Len(s)}

\* The next free sub identifier of a node.
nextDeviceIdentifier(a) ==
    LET used == {id.sub : id \in SeqRange(nodes[a].devices)}
        free == {s \in 0 .. Cardinality(used) : s \notin used}
    IN  SubIdentifier(a, CHOOSE s \in free : \A t \in free : s <= t)

addNode(a) ==
    nodes' = [b \in DOMAIN nodes \cup {a} |-> IF b = a THEN NewNode(a) ELSE nodes[b]]

removeNode(a) ==
    /\ nodes' = [b \in DOMAIN nodes \ {a} |-> nodes[b]]
    /\ endpointDescriptions' = [endpointDescriptions EXCEPT ![a] = <<>>]
    /\ transactionSequences' = [transactionSequences EXCEPT ![a] = 0]

\* The mutex of node a is read-held by the task inside NodeEnumerationCallback.
NodeMutexReadHeld(a) == ePc \notin {"idle", "called"} /\ eNode = a

\* The mutex of device id is held by the task inside NodeEnumerationCallback.
DeviceMutexHeld(id) == ePc \in {"attempt", "awaiting", "finish"} /\ eDev = id

\* The internalDevice a caller of ProductInformation still points to after
\* it has been taken out of the map.
Orphaned(id) ==
    IF pPc = "rlock" /\ pDev.identifier = id /\ ~pDev.orphan
       THEN [identifier |-> id, orphan |-> TRUE,
             productInformation |-> productInformation[id]]
       ELSE pDev

addDevice(id, a) ==
    /\ ~NodeMutexReadHeld(a)
    /\ devices' = [d \in DOMAIN devices \cup {id} |->
                      IF d = id THEN NewDevice(id) ELSE devices[d]]
    /\ nodes' = [nodes EXCEPT ![a].devices = Append(@, id)]

removeDevice(id) ==
    /\ ~NodeMutexReadHeld(id.ieee)
    /\ pDev' = Orphaned(id)
    /\ endpoints' = [endpoints EXCEPT ![id] = <<>>]
    /\ productInformation' = [productInformation EXCEPT ![id] = ZeroProductInformation]
    /\ devices' = [d \in DOMAIN devices \ {id} |-> devices[d]]
    /\ nodes' = [b \in DOMAIN nodes |->
                    [nodes[b] EXCEPT !.devices = SelectSeq(@, LAMBDA d : d # id)]]

\* The store-level lock on z.nodes is read-held by a caller inside Devices().
NodesLockReadHeld_Never == FALSE

NodesLockReadHeld == dPc = "iterating"

(* ----------------------------- egress queue --------------------------- *)

\* No operation has completed in the last step.
NoOp == [name |-> "none"]

\* Capacity of the egress channel.
EventsCapacity == 100

\* Number of sendEvent calls made beyond the capacity of the channel.
ExtraSends == 2
MaxSends == EventsCapacity + ExtraSends

\* The host tasks calling ReadEvent: two, so that calls can overlap.
Readers == {"host1", "host2"}

\* The k-th event handed to sendEvent; the ordinal tells the events apart.
Event(k) == [type |-> "Event", seq |-> k]
NilEvent == [type |-> "nil", seq |-> 0]

\* sendEvent: a select with a default branch on the buffered channel.
sendEvent_Unbuffered(q, e) == q

sendEvent_DropOldest(q, e) ==
    IF Len(q) < EventsCapacity THEN Append(q, e) ELSE Append(Tail(q), e)

sendEvent(q, e) == IF Len(q) < EventsCapacity THEN Append(q, e) ELSE q

\* Some task calls sendEvent with its next event.
SendEvent ==
    /\ sendCount < MaxSends
    /\ sendCount' = sendCount + 1
    /\ events' = sendEvent(events, Event(sendCount + 1))
    /\ dropped' = IF Len(events) < EventsCapacity
                     THEN dropped ELSE dropped \cup {sendCount + 1}
    /\ op' = [name |-> "sendEvent", event |-> Event(sendCount + 1), before |-> events]
    /\ UNCHANGED <<self, started, storeVars, handlerVars, devicesVars,
                   delivered, rPc, rCtxDone, discoveryVars, stopVars, productVars>>

\* A host task enters ReadEvent; alreadyDone: its context is cancelled already.
ReadEventCall(r, alreadyDone) ==
    /\ rPc[r] = "idle"
    /\ rPc' = [rPc EXCEPT ![r] = "waiting"]
    /\ rCtxDone' = [rCtxDone EXCEPT ![r] = alreadyDone]
    /\ op' = NoOp
    /\ UNCHANGED <<self, started, storeVars, handlerVars, devicesVars,
                   events, sendCount, dropped, delivered, discoveryVars, stopVars, productVars>>

\* The context of a waiting ReadEvent is cancelled or times out.
ContextCancel(r) ==
    /\ rPc[r] = "waiting"
    /\ ~rCtxDone[r]
    /\ rCtxDone' = [rCtxDone EXCEPT ![r] = TRUE]
    /\ op' = NoOp
    /\ UNCHANGED <<self, started, storeVars, handlerVars, devicesVars,
                   events, sendCount, dropped, delivered, rPc, discoveryVars, stopVars, productVars>>

\* What a receive leaves in the channel.
Dequeue_Keep(q) == q

Dequeue(q) == Tail(q)

\* case event := <-z.events
ReadEventReceive(r) ==
    /\ rPc[r] = "waiting"
    /\ events # <<>>
    /\ events' = Dequeue(events)
    /\ delivered' = Append(delivered, Head(events))
    /\ rPc' = [rPc EXCEPT ![r] = "idle"]
    /\ op' = [name |-> "ReadEvent", reader |-> r, event |-> Head(events),
              err |-> "nil", before |-> events]
    /\ UNCHANGED <<self, started, storeVars, handlerVars, devicesVars,
                   sendCount, dropped, rCtxDone, discoveryVars, stopVars, productVars>>

\* case <-ctx.Done()
ReadEventExpired(r) ==
    /\ rPc[r] = "waiting"
    /\ rCtxDone[r]
    /\ rPc' = [rPc EXCEPT ![r] = "idle"]
    /\ op' = [name |-> "ReadEvent", reader |-> r, event |-> NilEvent,
              err |-> "ContextExpired", before |-> events]
    /\ UNCHANGED <<self, started, storeVars, handlerVars, devicesVars,
                   events, sendCount, dropped, delivered, rCtxDone, discoveryVars, stopVars, productVars>>

\* ReadEvent returns to reader r.
ReadEventReturn(r) == ReadEventReceive(r) \/ ReadEventExpired(r)

(* --------------------------- DeviceDiscovery -------------------------- *)

\* The clock runs from 1 to MaxTime; durations range over 0 .. MaxDuration.
MaxTime == 3
MaxDuration == 2
Durations == 0 .. MaxDuration

\* Number of DeviceDiscovery operations the host invokes.
MaxCalls == 3

\* Self(): the gateway's own device.
Self_Zero == ZeroDevice

Self == self

\* The devices a caller passes: Self(), da.Device{} and a device of a node.
CallerDevices ==
    {Self, ZeroDevice,
     [identifier |-> SubIdentifier(1, 0), capabilities |-> {}, gateway |-> "zgw"]}

\* What provider.PermitJoin / provider.DenyJoin return.
ProviderResults == {"nil", "permit join failure", "deny join failure"}

\* Events of the capability on the egress queue.
DeviceDiscoveryAllowed(d) == [type |-> "DeviceDiscoveryAllowed", duration |-> d]
DeviceDiscoveryDenied == [type |-> "DeviceDiscoveryDenied", duration |-> 0]

\* The operation is for the gateway's Self device.
IsSelf(dev) == dev.identifier = Self.identifier

Max(a, b) == IF a >= b THEN a ELSE b

\* What Status reports.
StatusNow == [discovering |-> discovering,
              remaining |-> IF discovering THEN Max(allowExpiresAt - now, 0) ELSE 0]

\* The discovery state an operation found.
Before == [discovering |-> discovering, allowExpiresAt |-> allowExpiresAt,
           timerArmed |-> timerArmed, events |-> events, status |-> StatusNow]

OpRecord(name, dev, d, calls, perr, err) ==
    [name |-> name, device |-> dev, duration |-> d, calls |-> calls,
     providerErr |-> perr, err |-> err, before |-> Before]

discoveryOthers == <<self, started, storeVars, handlerVars, devicesVars,
                     sendCount, dropped, delivered, rPc, rCtxDone, stopVars, productVars>>

\* Allow(ctx, device, duration); perr is what provider.PermitJoin returns.
Allow_AlwaysResets(dev, d, perr) ==
    /\ opCount < MaxCalls
    /\ opCount' = opCount + 1
    /\ IF ~IsSelf(dev)
          THEN /\ op' = OpRecord("Allow", dev, d, <<>>, "nil", "NotSelfDevice")
               /\ UNCHANGED <<discovering, allowExpiresAt, timerArmed, events>>
          ELSE IF perr # "nil"
          THEN /\ op' = OpRecord("Allow", dev, d, <<"PermitJoin(true)">>, perr, perr)
               /\ UNCHANGED <<discovering, allowExpiresAt, timerArmed, events>>
          ELSE /\ op' = OpRecord("Allow", dev, d, <<"PermitJoin(true)">>, perr, "nil")
               /\ discovering' = TRUE
               /\ allowExpiresAt' = now + d
               /\ timerArmed' = TRUE
               /\ events' = sendEvent(events, DeviceDiscoveryAllowed(d))
    /\ UNCHANGED <<discoveryOthers, now>>

Allow_SetsFirst(dev, d, perr) ==
    /\ opCount < MaxCalls
    /\ opCount' = opCount + 1
    /\ IF ~IsSelf(dev)
          THEN /\ op' = OpRecord("Allow", dev, d, <<>>, "nil", "NotSelfDevice")
               /\ UNCHANGED <<discovering, allowExpiresAt, timerArmed, events>>
          ELSE /\ op' = OpRecord("Allow", dev, d, <<"PermitJoin(true)">>, perr, perr)
               /\ discovering' = TRUE
               /\ allowExpiresAt' = Max(allowExpiresAt, now + d)
               /\ timerArmed' = TRUE
               /\ events' = IF perr = "nil"
                               THEN sendEvent(events, DeviceDiscoveryAllowed(d))
                               ELSE events
    /\ UNCHANGED <<discoveryOthers, now>>

Allow(dev, d, perr) ==
    /\ opCount < MaxCalls
    /\ opCount' = opCount + 1
    /\ IF ~IsSelf(dev)
          THEN /\ op' = OpRecord("Allow", dev, d, <<>>, "nil", "NotSelfDevice")
               /\ UNCHANGED <<discovering, allowExpiresAt, timerArmed, events>>
          ELSE IF perr # "nil"
          THEN /\ op' = OpRecord("Allow", dev, d, <<"PermitJoin(true)">>, perr, perr)
               /\ UNCHANGED <<discovering, allowExpiresAt, timerArmed, events>>
          ELSE /\ op' = OpRecord("Allow", dev, d, <<"PermitJoin(true)">>, perr, "nil")
               /\ discovering' = TRUE
               /\ IF now + d >= allowExpiresAt
                     THEN allowExpiresAt' = now + d /\ timerArmed' = TRUE
                     ELSE UNCHANGED <<allowExpiresAt, timerArmed>>
               /\ events' = sendEvent(events, DeviceDiscoveryAllowed(d))
    /\ UNCHANGED <<discoveryOthers, now>>

\* The effect of a DenyJoin that succeeded.
Denied ==
    /\ discovering' = FALSE
    /\ allowExpiresAt' = 0
    /\ timerArmed' = FALSE
    /\ events' = sendEvent(events, DeviceDiscoveryDenied)

\* Deny(ctx, device); perr is what provider.DenyJoin returns.
Deny(dev, perr) ==
    /\ opCount < MaxCalls
    /\ opCount' = opCount + 1
    /\ IF ~IsSelf(dev)
          THEN /\ op' = OpRecord("Deny", dev, 0, <<>>, "nil", "NotSelfDevice")
               /\ UNCHANGED <<discovering, allowExpiresAt, timerArmed, events>>
          ELSE IF perr # "nil"
          THEN /\ op' = OpRecord("Deny", dev, 0, <<"DenyJoin">>, perr, perr)
               /\ UNCHANGED <<discovering, allowExpiresAt, timerArmed, events>>
          ELSE /\ op' = OpRecord("Deny", dev, 0, <<"DenyJoin">>, perr, "nil")
               /\ Denied
    /\ UNCHANGED <<discoveryOthers, now>>

\* Status(ctx, device).
Status(dev) ==
    /\ opCount < MaxCalls
    /\ opCount' = opCount + 1
    /\ op' = OpRecord("Status", dev, 0, <<>>, "nil",
                      IF IsSelf(dev) THEN "nil" ELSE "NotSelfDevice")
    /\ UNCHANGED <<discoveryOthers, discovering, allowExpiresAt, timerArmed, events, now>>

\* The background timer fires at the expiry and denies joining.
AutoDeny_Early(perr) ==
    /\ timerArmed
    /\ IF perr # "nil"
          THEN /\ op' = OpRecord("AutoDeny", Self, 0, <<"DenyJoin">>, perr, perr)
               /\ timerArmed' = FALSE
               /\ UNCHANGED <<discovering, allowExpiresAt, events>>
          ELSE /\ op' = OpRecord("AutoDeny", Self, 0, <<"DenyJoin">>, perr, "nil")
               /\ Denied
    /\ UNCHANGED <<discoveryOthers, now, opCount>>

AutoDeny(perr) ==
    /\ timerArmed
    /\ now >= allowExpiresAt
    /\ IF perr # "nil"
          THEN /\ op' = OpRecord("AutoDeny", Self, 0, <<"DenyJoin">>, perr, perr)
               /\ timerArmed' = FALSE
               /\ UNCHANGED <<discovering, allowExpiresAt, events>>
          ELSE /\ op' = OpRecord("AutoDeny", Self, 0, <<"DenyJoin">>, perr, "nil")
               /\ Denied
    /\ UNCHANGED <<discoveryOthers, now, opCount>>

\* Time passes.
Tick ==
    /\ now < MaxTime
    /\ now' = now + 1
    /\ op' = NoOp
    /\ UNCHANGED <<discoveryOthers, discovering, allowExpiresAt, timerArmed, events, opCount>>

(* ------------------------------- Start -------------------------------- *)

\* The Self device as Start() fills it in.
StartSelf == [identifier |-> IEEEIdentifier(AdapterIEEE),
              capabilities |-> {DeviceDiscoveryFlag}, gateway |-> "zgw"]

\* Start(): set up Self, register the adapter endpoint, launch the handler.
\* registered is the outcome of provider.RegisterAdapterEndpoint.
Start(registered) ==
    /\ started = "new"
    /\ self' = StartSelf
    /\ IF registered
          THEN started' = "started" /\ hPc' = "read"
          ELSE started' = "failed" /\ hPc' = hPc
    /\ UNCHANGED <<storeVars, hEvent, hErr, hDevs, pre, pub, devicesVars, auxVars>>

(* --------------------------- provider handler ------------------------- *)

NoEvent == [type |-> "none", ieee |-> 0]
NodeJoinEvent(a) == [type |-> "join", ieee |-> a]
NodeLeaveEvent(a) == [type |-> "leave", ieee |-> a]
NodeIncomingMessageEvent(a) == [type |-> "incoming", ieee |-> a]

ProviderEvents ==
    {NodeJoinEvent(a) : a \in EventAddrs} \cup
    {NodeLeaveEvent(a) : a \in EventAddrs} \cup
    {NodeIncomingMessageEvent(a) : a \in NodeAddrs}

\* What provider.ReadEvent can return: an event, the read timeout, or an
\* unexpected error (with whatever value accompanies it).
ReadResults ==
    {<<e, "nil">> : e \in ProviderEvents} \cup
    {<<NoEvent, "ContextExpired">>} \cup
    {<<e, "fatal">> : e \in ProviderEvents \cup {NoEvent}}

\* Internal events published on the callback bus.
internalNodeJoin(a) == [type |-> "internalNodeJoin", node |-> a]
internalNodeLeave(a) == [type |-> "internalNodeLeave", node |-> a]

\* Where the type switch sends an event.
Dispatch(e) ==
    CASE e.type = "join" -> "join_getNode"
      [] e.type = "leave" -> "leave_getNode"
      [] e.type = "incoming" -> "incoming"
      [] OTHER -> "select"

\* err != nil && err != zigbee.ContextExpired
FatalError_AnyError(err) == err # "nil"

FatalError(err) == err # "nil" /\ err # "ContextExpired"

\* Events read with a stop signal buffered are counted up to here.
MaxCounted == 2

\* One provider.ReadEvent and the error check that follows it, the provider
\* returning one of results. dispatchedAfterStop counts the events that are
\* handed to the type switch while a signal of Stop() is in the channel.
HandlerReadFrom(results) ==
    /\ hPc = "read"
    /\ \E r \in results :
          /\ hEvent' = r[1]
          /\ hErr' = r[2]
          /\ hPc' = IF FatalError(r[2])
                       THEN "returned"
                       ELSE Dispatch(r[1])
          /\ dispatchedAfterStop' =
                IF stopSignal > 0 /\ ~FatalError(r[2]) /\ r[1] # NoEvent
                   /\ dispatchedAfterStop < MaxCounted
                   THEN dispatchedAfterStop + 1
                   ELSE dispatchedAfterStop
    /\ pre' = [nodes |-> nodes, devices |-> devices]
    /\ pub' = <<>>
    /\ UNCHANGED <<self, started, storeVars, hDevs, devicesVars, egressVars,
                   discoveryVars, productVars, stopSignal, cancelled, sPc, stopCalls, op>>

HandlerRead == HandlerReadFrom(ReadResults)

\* case zigbee.NodeJoinEvent: getNode.
JoinGetNode ==
    /\ hPc = "join_getNode"
    /\ hPc' = IF getNode(hEvent.ieee) THEN "join_getDevices" ELSE "join_addNode"
    /\ UNCHANGED <<self, started, storeVars, hEvent, hErr, hDevs, pre, pub, devicesVars, auxVars>>

\* if !found: addNode (needs the write lock on z.nodes).
JoinAddNode ==
    /\ hPc = "join_addNode"
    /\ ~NodesLockReadHeld
    /\ addNode(hEvent.ieee)
    /\ hPc' = "join_getDevices"
    /\ UNCHANGED <<self, started, devices, hEvent, hErr, hDevs, pre, pub, devicesVars, auxVars>>

\* The test that decides whether the initial device is allocated.
NeedsInitialDevice_Always(a) == TRUE

NeedsInitialDevice(a) == Len(getDevices(a)) = 0

JoinGetDevices ==
    /\ hPc = "join_getDevices"
    /\ hPc' = IF NeedsInitialDevice(hEvent.ieee) THEN "join_addDevice" ELSE "select"
    /\ UNCHANGED <<self, started, storeVars, hEvent, hErr, hDevs, pre, pub, devicesVars, auxVars>>

\* nextDeviceIdentifier and addDevice.
JoinAddDevice ==
    /\ hPc = "join_addDevice"
    /\ addDevice(nextDeviceIdentifier(hEvent.ieee), hEvent.ieee)
    /\ hPc' = "join_call"
    /\ UNCHANGED <<self, started, hEvent, hErr, hDevs, pre, pub, devicesVars, auxVars>>

\* callbacks.Call(internalNodeJoin{node}).
JoinCall ==
    /\ hPc = "join_call"
    /\ pub' = Append(pub, internalNodeJoin(hEvent.ieee))
    /\ hPc' = "select"
    /\ UNCHANGED <<self, started, storeVars, hEvent, hErr, hDevs, pre, devicesVars, auxVars>>

\* case zigbee.NodeLeaveEvent: getNode.
LeaveGetNode ==
    /\ hPc = "leave_getNode"
    /\ hPc' = IF getNode(hEvent.ieee) THEN "leave_call" ELSE "select"
    /\ UNCHANGED <<self, started, storeVars, hEvent, hErr, hDevs, pre, pub, devicesVars, auxVars>>

\* callbacks.Call(internalNodeLeave{node}).
LeaveCall ==
    /\ hPc = "leave_call"
    /\ pub' = Append(pub, internalNodeLeave(hEvent.ieee))
    /\ hPc' = "leave_getDevices"
    /\ UNCHANGED <<self, started, storeVars, hEvent, hErr, hDevs, pre, devicesVars, auxVars>>

\* The devices the removal loop ranges over.
LeaveLoopDevices_None(a) == <<>>

LeaveLoopDevices(a) == getDevices(a)

LeaveGetDevices ==
    /\ hPc = "leave_getDevices"
    /\ hDevs' = LeaveLoopDevices(hEvent.ieee)
    /\ hPc' = "leave_removeDevice"
    /\ UNCHANGED <<self, started, storeVars, hEvent, hErr, pre, pub, devicesVars, auxVars>>

\* One pass of the loop body: removeDevice.
LeaveRemoveDevice ==
    /\ hPc = "leave_removeDevice"
    /\ hDevs # <<>>
    /\ removeDevice(Head(hDevs))
    /\ hDevs' = Tail(hDevs)
    /\ UNCHANGED <<self, started, hPc, hEvent, hErr, pre, pub, devicesVars,
                   egressVars, discoveryVars, stopVars, nodeFieldVars, enumVars,
                   hostVars, op>>

\* After the loop: removeNode (needs the write lock on z.nodes).
LeaveRemoveNode ==
    /\ hPc = "leave_removeDevice"
    /\ hDevs = <<>>
    /\ ~NodesLockReadHeld
    /\ removeNode(hEvent.ieee)
    /\ hPc' = "select"
    /\ UNCHANGED <<self, started, devices, hEvent, hErr, hDevs, pre, pub, devicesVars,
                   egressVars, discoveryVars, stopVars, deviceFieldVars, enumVars,
                   hostVars, pDev, op>>

\* case zigbee.NodeIncomingMessageEvent: handed to the communicator.
HandlerIncoming ==
    /\ hPc = "incoming"
    /\ hPc' = "select"
    /\ UNCHANGED <<self, started, storeVars, hEvent, hErr, hDevs, pre, pub, devicesVars, auxVars>>

\* The select at the end of the iteration: a buffered stop signal is taken and
\* the handler returns, otherwise the default branch starts the next pass.
HandlerSelect ==
    /\ hPc = "select"
    /\ IF stopSignal > 0
          THEN stopSignal' = stopSignal - 1 /\ hPc' = "returned"
          ELSE stopSignal' = stopSignal /\ hPc' = "read"
    /\ UNCHANGED <<self, started, storeVars, hEvent, hErr, hDevs, pre, pub, devicesVars,
                   egressVars, discoveryVars, productVars, cancelled, sPc, stopCalls,
                   dispatchedAfterStop, op>>

(* -------------------------------- Stop -------------------------------- *)

\* Capacity of z.providerHandlerStop.
StopCapacity == 1

\* Number of Stop() calls made on one gateway.
MaxStops == 2

\* A caller enters Stop().
StopCall ==
    /\ sPc = "idle"
    /\ stopCalls < MaxStops
    /\ stopCalls' = stopCalls + 1
    /\ sPc' = "send"
    /\ UNCHANGED <<self, started, storeVars, handlerVars, devicesVars, egressVars,
                   discoveryVars, productVars, stopSignal, cancelled,
                   dispatchedAfterStop, op>>

\* z.providerHandlerStop <- true: waits while the buffer is full.
StopSend ==
    /\ sPc = "send"
    /\ stopSignal < StopCapacity
    /\ stopSignal' = stopSignal + 1
    /\ sPc' = "cancel"
    /\ UNCHANGED <<self, started, storeVars, handlerVars, devicesVars, egressVars,
                   discoveryVars, productVars, cancelled, stopCalls,
                   dispatchedAfterStop, op>>

\* z.contextCancel(), the poller and the capabilities are stopped, return nil.
\* The position of the provider handler at the return is kept in op.
StopReturn ==
    /\ sPc = "cancel"
    /\ cancelled' = TRUE
    /\ sPc' = "idle"
    /\ op' = [name |-> "Stop", handler |-> hPc, err |-> "nil"]
    /\ UNCHANGED <<self, started, storeVars, handlerVars, devicesVars, egressVars,
                   discoveryVars, productVars, stopSignal, stopCalls,
                   dispatchedAfterStop>>

(* ------------------------------ Devices() ----------------------------- *)

\* The da.Device value of a stored device.
DeviceValue(id) == [identifier |-> devices[id].identifier,
                    capabilities |-> devices[id].capabilities,
                    gateway |-> devices[id].gateway]

RECURSIVE DeviceValues(_)
DeviceValues(ids) ==
    IF ids = <<>> THEN <<>> ELSE <<DeviceValue(Head(ids))>> \o DeviceValues(Tail(ids))

\* devices := []Device{z.self.device}
DevicesInitial_Empty == <<>>

DevicesInitial == <<self>>

\* Entry: the slice starts with Self, then z.nodesLock.RLock().
DevicesBegin ==
    /\ dPc = "idle"
    /\ dResult' = DevicesInitial
    /\ dTodo' = DOMAIN nodes
    /\ dPc' = "iterating"
    /\ dStarted' = (started # "new")
    /\ UNCHANGED <<self, started, storeVars, handlerVars, auxVars>>

\* One pass of the outer loop: the node's devices are appended under its lock.
\* (A map entry deleted before the range reaches it is not produced.)
DevicesVisit ==
    /\ dPc = "iterating"
    /\ \E a \in dTodo :
          /\ dResult' = dResult \o (IF a \in DOMAIN nodes
                                       THEN DeviceValues(nodes[a].devices)
                                       ELSE <<>>)
          /\ dTodo' = dTodo \ {a}
    /\ UNCHANGED <<self, started, storeVars, handlerVars, dPc, dStarted, auxVars>>

\* z.nodesLock.RUnlock() and return.
DevicesReturn ==
    /\ dPc = "iterating"
    /\ dTodo = {}
    /\ dPc' = "idle"
    /\ UNCHANGED <<self, started, storeVars, handlerVars, dTodo, dResult, dStarted, auxVars>>

(* ------------------------ HasProductInformation ------------------------ *)

\* Number of attempts retry.Retry makes (DefaultNetworkRetries).
NetworkRetries == 2

\* The enumerations of a node go on while its transaction sequence counter
\* stays within this value.
MaxSequence == 4

\* The node whose enumeration is followed, and its endpoints.
EnumAddr == 1
Endpoints == {1, 2}

\* zcl.BasicId, and another cluster a simple descriptor lists.
BasicId == 0
OnOffId == 6

\* The attributes read, another one, and a status other than success.
ManufacturerNameAttr == 4
ModelIdentifierAttr == 5
OtherAttr == 7
StatusSuccess == 0
StatusUnsupportedAttribute == 134

\* Bits of ProductInformation.Present.
ManufacturerBit == "Manufacturer"
NameBit == "Name"

\* The in-cluster lists and endpoint descriptions an enumeration can find; an
\* endpoint may have no description.
ClusterLists == {<<OnOffId>>, <<BasicId, OnOffId>>}
DescriptionChoices ==
    {[e \in {2} |-> <<BasicId, OnOffId>>],
     [e \in Endpoints |-> <<OnOffId>>],
     [e \in Endpoints |-> <<BasicId, OnOffId>>]}
EndpointChoices == {<<1, 2>>}

isClusterIdInSlice(list, clusterId) == \E i \in 1 .. Len(list) : list[i] = clusterId

\* iNode.endpointDescriptions[endpoint].InClusterList: the zero value for an
\* endpoint that is not in the map.
InClusterList(a, endpoint) ==
    IF endpoint \in DOMAIN endpointDescriptions[a]
       THEN endpointDescriptions[a][endpoint]
       ELSE <<>>

\* The search for the first endpoint that lists the Basic cluster.
RECURSIVE FindBasicEndpoint(_, _)
FindBasicEndpoint(a, eps) ==
    IF eps = <<>>
       THEN [found |-> FALSE, endpoint |-> 0]
       ELSE IF isClusterIdInSlice(InClusterList(a, Head(eps)), BasicId)
               THEN [found |-> TRUE, endpoint |-> Head(eps)]
               ELSE FindBasicEndpoint(a, Tail(eps))

\* What ReadAttributes can return without an error.
ReadRecord(id, status, value) == [identifier |-> id, status |-> status, value |-> value]
ManufacturerRecords ==
    {ReadRecord(ManufacturerNameAttr, StatusSuccess, "Acme"),
     ReadRecord(ManufacturerNameAttr, StatusUnsupportedAttribute, "")}
NameRecords ==
    {ReadRecord(ModelIdentifierAttr, StatusSuccess, "Bulb1"),
     ReadRecord(ModelIdentifierAttr, StatusUnsupportedAttribute, "")}
ReadRecords ==
    ManufacturerRecords \cup NameRecords \cup {ReadRecord(OtherAttr, StatusSuccess, "1.0")}

\* A response holds no record, one, or one for each attribute in either order.
Responses ==
    {<<>>} \cup {<<r>> : r \in ReadRecords} \cup
    {<<r, q>> : r \in ManufacturerRecords, q \in NameRecords} \cup
    {<<q, r>> : r \in ManufacturerRecords, q \in NameRecords}

\* No response yet / every attempt failed / a response.
NoResponse == [kind |-> "none", records |-> <<>>]
FailedResponse == [kind |-> "failed", records |-> <<>>]
ReadResponse(records) == [kind |-> "read", records |-> records]

\* The body of the switch on record.Identifier.
ApplyRecord_ClearsBoth(pi, record) ==
    CASE record.identifier = ManufacturerNameAttr ->
            IF record.status = StatusSuccess
               THEN [pi EXCEPT !.manufacturer = record.value,
                               !.present = @ \cup {ManufacturerBit}]
               ELSE [pi EXCEPT !.manufacturer = "", !.name = "", !.present = {}]
      [] record.identifier = ModelIdentifierAttr ->
            IF record.status = StatusSuccess
               THEN [pi EXCEPT !.name = record.value, !.present = @ \cup {NameBit}]
               ELSE [pi EXCEPT !.manufacturer = "", !.name = "", !.present = {}]
      [] OTHER -> pi

ApplyRecord(pi, record) ==
    CASE record.identifier = ManufacturerNameAttr ->
            IF record.status = StatusSuccess
               THEN [pi EXCEPT !.manufacturer = record.value,
                               !.present = @ \cup {ManufacturerBit}]
               ELSE [pi EXCEPT !.manufacturer = "", !.present = @ \ {ManufacturerBit}]
      [] record.identifier = ModelIdentifierAttr ->
            IF record.status = StatusSuccess
               THEN [pi EXCEPT !.name = record.value, !.present = @ \cup {NameBit}]
               ELSE [pi EXCEPT !.name = "", !.present = @ \ {NameBit}]
      [] OTHER -> pi

\* for _, record := range readRecords
RECURSIVE ApplyRecords(_, _)
ApplyRecords(pi, records) ==
    IF records = <<>> THEN pi
    ELSE ApplyRecords(ApplyRecord(pi, Head(records)), Tail(records))

\* addCapability(&iDev.device, flag)
addCapability(device, flag) ==
    [device EXCEPT !.capabilities = @ \cup {flag}]

\* The local state of the callback between two passes of its loop.
NoBefore == [productInformation |-> ZeroProductInformation, capabilities |-> {}]
NotFound == [found |-> FALSE, endpoint |-> 0]

enumOthers == <<self, started, storeVars, handlerVars, devicesVars, egressVars,
                discoveryVars, stopVars, hostVars, pDev>>

\* An enumeration of node a ends: it has stored the endpoint descriptions and
\* the endpoints of the node's device and publishes internalNodeEnumeration,
\* which calls NodeEnumerationCallback; the callback read-locks the node.
EnumerateNode(a, descriptions, eps) ==
    /\ ePc = "idle"
    /\ transactionSequences[a] + NetworkRetries <= MaxSequence
    /\ getNode(a)
    /\ getDevices(a) # <<>>
    /\ endpointDescriptions' = [endpointDescriptions EXCEPT ![a] = descriptions]
    /\ endpoints' = [endpoints EXCEPT ![nodes[a].devices[1]] = eps]
    /\ eNode' = a
    /\ eTodo' = nodes[a].devices
    /\ ePc' = "loop"
    /\ op' = NoOp
    /\ UNCHANGED <<enumOthers, transactionSequences, productInformation, eDev, eFound,
                   eTries, eBefore, eResp, seqUnderMutex>>

\* The head of the loop over iNode.devices: the device is locked and its
\* endpoints are searched for the Basic cluster.
EnumLockDevice ==
    /\ ePc = "loop"
    /\ eTodo # <<>>
    /\ eDev' = Head(eTodo)
    /\ eBefore' = [productInformation |-> productInformation[Head(eTodo)],
                    capabilities |-> devices[Head(eTodo)].capabilities]
    /\ eFound' = FindBasicEndpoint(eNode, endpoints[Head(eTodo)])
    /\ eTries' = 0
    /\ eResp' = NoResponse
    /\ ePc' = IF eFound'.found THEN "attempt" ELSE "finish"
    /\ op' = NoOp
    /\ UNCHANGED <<enumOthers, nodeFieldVars, deviceFieldVars, eNode, eTodo,
                   seqUnderMutex>>

\* iNode.nextTransactionSequence() asks for the node mutex.
NodeMutexRequested == seqUnderMutex /\ ePc = "attempt"

\* The mutex iNode.nextTransactionSequence() takes can be taken: as a writer,
\* once no reader holds it.
SequenceLockFree == seqUnderMutex => ~NodeMutexReadHeld(eNode)

\* One attempt of retry.Retry begins: iNode.nextTransactionSequence() is
\* evaluated and ReadAttributes sends the request.
EnumSequence ==
    /\ ePc = "attempt"
    /\ SequenceLockFree
    /\ transactionSequences' = [transactionSequences EXCEPT ![eNode] = (@ + 1) % 256]
    /\ eTries' = eTries + 1
    /\ ePc' = "awaiting"
    /\ UNCHANGED <<enumOthers, endpointDescriptions, deviceFieldVars, eNode, eTodo, eDev,
                   eFound, eBefore, eResp,  seqUnderMutex, op>>

\* ReadAttributes returns an error: retry.Retry tries again or gives up.
ReadAttributesFails ==
    /\ ePc = "awaiting"
    /\ IF eTries < NetworkRetries
          THEN ePc' = "attempt" /\ eResp' = eResp
          ELSE ePc' = "finish" /\ eResp' = FailedResponse
    /\ UNCHANGED <<enumOthers, nodeFieldVars, deviceFieldVars, eNode, eTodo, eDev,
                   eFound, eTries, eBefore,  seqUnderMutex, op>>

\* ReadAttributes returns records: they are applied to the device.
ReadAttributesReturns(records) ==
    /\ ePc = "awaiting"
    /\ productInformation' = [productInformation EXCEPT
                                 ![eDev] = ApplyRecords(@, records)]
    /\ eResp' = ReadResponse(records)
    /\ ePc' = "finish"
    /\ UNCHANGED <<enumOthers, nodeFieldVars, endpoints, eNode, eTodo, eDev, eFound,
                   eTries, eBefore,  seqUnderMutex, op>>

\* The test that decides whether the capability is attached.
AttachesCapability_IfRead == eFound.found /\ eResp.kind = "read"

AttachesCapability == eFound.found

\* The end of the loop body: addCapability if an endpoint was found, and
\* iDev.mutex.Unlock(). What the pass found, and how its read ended, stays in
\* eFound, eBefore and eResp until the callback goes on.
EnumFinish ==
    /\ ePc = "finish"
    /\ devices' = IF AttachesCapability
                     THEN [devices EXCEPT
                             ![eDev] = addCapability(@, HasProductInformationFlag)]
                     ELSE devices
    /\ op' = [name |-> "enumerated"]
    /\ eTodo' = Tail(eTodo)
    /\ eResp' = [eResp EXCEPT !.records = <<>>]
    /\ ePc' = "loop"
    /\ UNCHANGED <<self, started, nodes, handlerVars, devicesVars, egressVars,
                   discoveryVars, stopVars, hostVars, pDev, nodeFieldVars,
                   deviceFieldVars, eNode, eDev, eFound, eTries, eBefore,
                   seqUnderMutex>>

\* After the loop: return nil, and the deferred iNode.mutex.RUnlock().
EnumReturn ==
    /\ ePc = "loop"
    /\ eTodo = <<>>
    /\ ePc' = "idle"
    /\ op' = [name |-> "NodeEnumerationCallback", err |-> "nil"]
    /\ eDev' = NilDevice.identifier
    /\ eFound' = NotFound
    /\ eTries' = 0
    /\ eBefore' = NoBefore
    /\ eResp' = NoResponse
    /\ UNCHANGED <<enumOthers, nodeFieldVars, deviceFieldVars, eNode, eTodo,
                   seqUnderMutex>>

\* Device values of other origin a host can pass: one of another gateway
\* with the identifier and the capability of a device of this one, and the
\* zero value.
ForeignDevices ==
    {[identifier |-> SubIdentifier(EnumAddr, 0),
      capabilities |-> {HasProductInformationFlag}, gateway |-> "other"],
     ZeroDevice}

hostOthers == <<self, started, storeVars, handlerVars, devicesVars, egressVars,
                discoveryVars, stopVars, nodeFieldVars, deviceFieldVars, enumVars>>

\* The host keeps the value of a stored device, as Devices() returns it.
HostObtain ==
    /\ pPc = "idle"
    /\ \E id \in DOMAIN devices : hostDev' = DeviceValue(id)
    /\ op' = NoOp
    /\ UNCHANGED <<hostOthers, pPc, pDev>>

\* The host takes a device value of other origin.
HostForeign ==
    /\ pPc = "idle"
    /\ \E d \in ForeignDevices : hostDev' = d
    /\ op' = NoOp
    /\ UNCHANGED <<hostOthers, pPc, pDev>>

\* da.DeviceDoesNotBelongToGateway(z.gateway, device)
DeviceDoesNotBelongToGateway(device) == device.gateway # "zgw"

\* device.HasCapability(flag)
HasCapability(device, flag) == flag \in device.capabilities

\* What a call returned, or how it ended, and whether the device it was for
\* (hostDev) was stored when it ended.
ProductInformationResult(info, err, stored) ==
    [name |-> "ProductInformation", info |-> info, err |-> err, stored |-> stored]

\* ProductInformation(ctx, device) up to iDev.mutex.RLock(): the two checks
\* and getDevice, whose found flag is dropped: iDev.mutex of the nil pointer
\* it returns for an identifier that is not in the map is a nil dereference.
ProductInformationCall ==
    /\ pPc = "idle"
    /\ IF DeviceDoesNotBelongToGateway(hostDev)
          THEN /\ op' = ProductInformationResult(ZeroProductInformation,
                                                 "DeviceDoesNotBelongToGateway",
                                                 getDevice(hostDev.identifier))
               /\ UNCHANGED <<pPc, pDev>>
          ELSE IF ~HasCapability(hostDev, HasProductInformationFlag)
          THEN /\ op' = ProductInformationResult(ZeroProductInformation,
                                                 "DeviceDoesNotHaveCapability",
                                                 getDevice(hostDev.identifier))
               /\ UNCHANGED <<pPc, pDev>>
          ELSE IF getDevice(hostDev.identifier)
          THEN /\ pDev' = [identifier |-> hostDev.identifier, orphan |-> FALSE]
               /\ pPc' = "rlock"
               /\ op' = NoOp
          ELSE /\ op' = ProductInformationResult(<<>>, "nil pointer dereference", FALSE)
               /\ UNCHANGED <<pPc, pDev>>
    /\ UNCHANGED <<hostOthers, hostDev>>

\* iDev.mutex.RLock(), return iDev.productInformation, nil.
ProductInformationReturn ==
    /\ pPc = "rlock"
    /\ pDev.orphan \/ ~DeviceMutexHeld(pDev.identifier)
    /\ op' = ProductInformationResult(
                 IF pDev.orphan THEN pDev.productInformation
                 ELSE productInformation[pDev.identifier], "nil", ~pDev.orphan)
    /\ pPc' = "idle"
    /\ pDev' = [identifier |-> NilDevice.identifier, orphan |-> FALSE]
    /\ UNCHANGED <<hostOthers, hostDev>>

(* --------------------------- specification ---------------------------- *)

vars == <<self, started, nodes, devices, hPc, hEvent, hErr, hDevs, pre, pub,
          dPc, dTodo, dResult, dStarted, events, sendCount, dropped, delivered,
          rPc, rCtxDone, discovering, allowExpiresAt, timerArmed, now, opCount,
          stopSignal, cancelled, sPc, stopCalls, dispatchedAfterStop,
          endpointDescriptions, transactionSequences, endpoints, productInformation,
          ePc, eNode, eTodo, eDev, eFound, eTries, eBefore, eResp,
          seqUnderMutex, hostDev, pPc, pDev, op>>

\* Nothing is being enumerated and the host has called nothing.
ProductInit ==
    /\ FreshNodeFields
    /\ FreshDeviceFields
    /\ ePc = "idle"
    /\ eNode = 0
    /\ eTodo = <<>>
    /\ eDev = NilDevice.identifier
    /\ eFound = [found |-> FALSE, endpoint |-> 0]
    /\ eTries = 0
    /\ eBefore = [productInformation |-> ZeroProductInformation, capabilities |-> {}]
    /\ eResp = [kind |-> "none", records |-> <<>>]
    /\ hostDev = ZeroDevice
    /\ pPc = "idle"
    /\ pDev = [identifier |-> NilDevice.identifier, orphan |-> FALSE]

\* The state New() builds.
InitGateway ==
    /\ self = ZeroDevice
    /\ started = "new"
    /\ nodes = <<>>
    /\ devices = <<>>
    /\ hPc = "off"
    /\ hEvent = NoEvent
    /\ hErr = "nil"
    /\ hDevs = <<>>
    /\ pre = [nodes |-> <<>>, devices |-> <<>>]
    /\ pub = <<>>
    /\ dPc = "idle"
    /\ dTodo = {}
    /\ dResult = <<>>
    /\ dStarted = FALSE
    /\ events = <<>>
    /\ sendCount = 0
    /\ dropped = {}
    /\ delivered = <<>>
    /\ rPc = [r \in Readers |-> "idle"]
    /\ rCtxDone = [r \in Readers |-> FALSE]
    /\ discovering = FALSE
    /\ allowExpiresAt = 0
    /\ timerArmed = FALSE
    /\ now = 1
    /\ opCount = 0
    /\ stopSignal = 0
    /\ cancelled = FALSE
    /\ sPc = "idle"
    /\ stopCalls = 0
    /\ dispatchedAfterStop = 0
    /\ ProductInit
    /\ seqUnderMutex = TRUE
    /\ op = NoOp

Init == InitGateway

StartOk == Start(TRUE)
StartFails == Start(FALSE)

Next ==
    \/ StartOk
    \/ StartFails
    \/ HandlerRead
    \/ JoinGetNode
    \/ JoinAddNode
    \/ JoinGetDevices
    \/ JoinAddDevice
    \/ JoinCall
    \/ LeaveGetNode
    \/ LeaveCall
    \/ LeaveGetDevices
    \/ LeaveRemoveDevice
    \/ LeaveRemoveNode
    \/ HandlerIncoming
    \/ HandlerSelect
    \/ StopCall
    \/ StopSend
    \/ StopReturn
    \/ DevicesBegin
    \/ DevicesVisit
    \/ DevicesReturn

Spec == Init /\ [][Next]_vars

(* ------------------- properties of the provider handler --------------- *)

\* The handler has finished dispatching a join / a leave event.
JoinDone == hPc = "select" /\ hEvent.type = "join"
LeaveDone == hPc = "select" /\ hEvent.type = "leave"

\* The devices a node had when the current iteration began.
PreDevices(a) == IF a \in DOMAIN pre.nodes THEN pre.nodes[a].devices ELSE <<>>

\* The identifiers listed under the nodes of a node map.
ListedDevices(ns) == UNION {SeqRange(ns[a].devices) : a \in DOMAIN ns}

\* C1: after a NodeJoinEvent(ieee) has been handled the node exists; if it had
\* no devices, exactly one device without capabilities was added and
\* internalNodeJoin was published exactly once; if it had a device already,
\* no device was added and nothing was published.
C1_NodeJoin ==
    JoinDone =>
        LET a == hEvent.ieee
        IN  /\ a \in DOMAIN nodes
            /\ \A b \in DOMAIN pre.nodes : b \in DOMAIN nodes
            /\ \A b \in DOMAIN nodes \ {a} : b \in DOMAIN pre.nodes /\ nodes[b] = pre.nodes[b]
            /\ IF Len(PreDevices(a)) = 0
                  THEN /\ Len(nodes[a].devices) = 1
                       /\ LET id == nodes[a].devices[1]
                          IN  /\ id \notin DOMAIN pre.devices
                              /\ DOMAIN devices = DOMAIN pre.devices \cup {id}
                              /\ devices[id].identifier = id
                              /\ devices[id].capabilities = {}
                              /\ id.ieee = a
                       /\ pub = <<internalNodeJoin(a)>>
                  ELSE /\ nodes[a].devices = PreDevices(a)
                       /\ devices = pre.devices
                       /\ pub = <<>>

\* C1 witness: a re-delivered join for a node that already had its device.
C1_Witness == JoinDone /\ Len(PreDevices(hEvent.ieee)) = 1 /\ hEvent.ieee \in NodeAddrs

\* C2: after a NodeLeaveEvent(ieee) for a stored node has been handled the
\* node is absent, none of its devices resolves and none is listed for
\* Devices(); for an unknown ieee nothing is published and the store is
\* unchanged.
C2_NodeLeave ==
    LeaveDone =>
        LET a == hEvent.ieee
        IN  IF a \in DOMAIN pre.nodes
               THEN /\ ~getNode(a)
                    /\ \A id \in SeqRange(PreDevices(a)) :
                          /\ ~getDevice(id)
                          /\ id \notin ListedDevices(nodes)
                    /\ pub = <<internalNodeLeave(a)>>
               ELSE /\ pub = <<>>
                    /\ nodes = pre.nodes
                    /\ devices = pre.devices

\* C2 witness: a leave handled for a node that was stored with a device.
C2_Witness == LeaveDone /\ Len(PreDevices(hEvent.ieee)) = 1 /\ hEvent.ieee \in NodeAddrs

(* ------------------------- properties of Devices() -------------------- *)

\* C3: once Start() has run, Self() is the adapter's device with exactly the
\* DeviceDiscovery capability, and every Devices() call begun since then
\* holds it, whatever provider events were handled.
C3_SelfPresent ==
    /\ started # "new" => self = StartSelf
    /\ dStarted => \E i \in 1 .. Len(dResult) : dResult[i] = StartSelf

\* C3 witness: a Devices() result holding only Self while the handler has
\* just dealt with a NodeLeaveEvent carrying the adapter's own address, for
\* which a node was stored.
C3_Witness ==
    /\ dStarted /\ dPc = "idle" /\ dResult = <<StartSelf>>
    /\ LeaveDone /\ hEvent.ieee = AdapterIEEE /\ AdapterIEEE \in DOMAIN pre.nodes

\* The identifiers in the slice of Devices(), Self excluded.
ResultIds == {dResult[i].identifier : i \in 2 .. Len(dResult)}

\* The handler is between two iterations.
BetweenIterations == hPc \in {"off", "read", "select", "returned"}

\* C4: a Devices() slice starts with Self, names no device twice, and while
\* the call runs every other device in it belongs to a node that is in the
\* store and has been visited; every device is listed under exactly one
\* node, once; and between handler iterations the device map holds exactly
\* the devices listed under the stored nodes.
C4_Snapshot ==
    /\ dResult # <<>> => dResult[1] = (IF dStarted THEN StartSelf ELSE ZeroDevice)
    /\ \A i, j \in 1 .. Len(dResult) :
          dResult[i].identifier = dResult[j].identifier => i = j
    /\ dPc = "iterating" =>
          \A id \in ResultIds : id.ieee \in DOMAIN nodes /\ id.ieee \notin dTodo
    /\ \A a \in DOMAIN nodes :
          /\ \A i, j \in 1 .. Len(nodes[a].devices) :
                nodes[a].devices[i] = nodes[a].devices[j] => i = j
          /\ \A id \in SeqRange(nodes[a].devices) : id.ieee = a
    /\ BetweenIterations => DOMAIN devices = ListedDevices(nodes)

\* C4 witness: a Devices() call in progress holds a device that the handler
\* has removed meanwhile, the handler now waiting to remove the node.
C4_Witness ==
    /\ dPc = "iterating"
    /\ hPc = "leave_removeDevice" /\ hDevs = <<>>
    /\ \E id \in ResultIds : id.ieee = hEvent.ieee /\ ~getDevice(id)

(* ------------------------ egress queue specification ------------------ *)

ReadEventEnter == \E r \in Readers : \E b \in BOOLEAN : ReadEventCall(r, b)
ReadEventCancel == \E r \in Readers : ContextCancel(r)
ReadEventGet == \E r \in Readers : ReadEventReceive(r)
ReadEventGiveUp == \E r \in Readers : ReadEventExpired(r)

NextEgress ==
    \/ SendEvent
    \/ ReadEventEnter
    \/ ReadEventCancel
    \/ ReadEventGet
    \/ ReadEventGiveUp

SpecEgress == InitGateway /\ [][NextEgress]_vars

\* C5: sendEvent can always be called and returns at once, the queue never
\* holds more than EventsCapacity events; below capacity the event is
\* appended at the tail, at capacity it is dropped and the queue is as it was.
C5_SendEvent ==
    /\ Len(events) <= EventsCapacity
    /\ sendCount < MaxSends => ENABLED SendEvent
    /\ op.name = "sendEvent" =>
          IF Len(op.before) < EventsCapacity
             THEN events = Append(op.before, op.event)
             ELSE events = op.before

\* C5 witness: an event has just been dropped at a full queue.
C5_Witness ==
    /\ op.name = "sendEvent"
    /\ Len(op.before) = EventsCapacity
    /\ events = op.before

\* The events ReadEvent has returned followed by those still queued.
Passed == delivered \o events

\* C6: the events ReadEvent has returned, followed by those still queued, are
\* exactly the accepted events in the order they were enqueued (so each goes
\* to one call only); a ReadEvent that ends on its cancelled context returns
\* (nil, ContextExpired) and leaves the queue as it was; and a ReadEvent with a
\* live context and an empty queue cannot return.
C6_ReadEvent ==
    /\ {Passed[i].seq : i \in 1 .. Len(Passed)} = (1 .. sendCount) \ dropped
    /\ \A i \in 1 .. Len(Passed) - 1 : Passed[i].seq < Passed[i + 1].seq
    /\ op.name = "ReadEvent" =>
          IF op.err = "nil"
             THEN op.before # <<>> /\ op.event = Head(op.before) /\ events = Tail(op.before)
             ELSE op.err = "ContextExpired" /\ op.event = NilEvent /\ events = op.before
    /\ \A r \in Readers :
          (rPc[r] = "waiting" /\ events = <<>> /\ ~rCtxDone[r]) => ~ENABLED ReadEventReturn(r)

\* C6 witness: after an overflow, events have been read and a ReadEvent has
\* just ended on its cancelled context while events were queued.
C6_Witness ==
    /\ dropped # {}
    /\ Len(delivered) >= 2
    /\ op.name = "ReadEvent" /\ op.err = "ContextExpired" /\ events # <<>>

(* ----------------------- DeviceDiscovery specification ---------------- *)

\* The egress queue after n successful Deny(self) calls made while joining
\* was not permitted, none of whose events the host has read: each call
\* leaves the discovery state as it was and enqueues DeviceDiscoveryDenied.
Backlog(n) == [i \in 1 .. n |-> DeviceDiscoveryDenied]
Backlogs == {Backlog(0), Backlog(EventsCapacity - 1), Backlog(EventsCapacity)}

\* A gateway whose Start() succeeded, joining not permitted, with a backlog
\* of unread events.
InitDiscovery ==
    /\ self = StartSelf
    /\ started = "started"
    /\ nodes = <<>>
    /\ devices = <<>>
    /\ hPc = "read"
    /\ hEvent = NoEvent
    /\ hErr = "nil"
    /\ hDevs = <<>>
    /\ pre = [nodes |-> <<>>, devices |-> <<>>]
    /\ pub = <<>>
    /\ dPc = "idle"
    /\ dTodo = {}
    /\ dResult = <<>>
    /\ dStarted = FALSE
    /\ events \in Backlogs
    /\ sendCount = 0
    /\ dropped = {}
    /\ delivered = <<>>
    /\ rPc = [r \in Readers |-> "idle"]
    /\ rCtxDone = [r \in Readers |-> FALSE]
    /\ discovering = FALSE
    /\ allowExpiresAt = 0
    /\ timerArmed = FALSE
    /\ now = 1
    /\ opCount = 0
    /\ stopSignal = 0
    /\ cancelled = FALSE
    /\ sPc = "idle"
    /\ stopCalls = 0
    /\ dispatchedAfterStop = 0
    /\ ProductInit
    /\ seqUnderMutex = TRUE
    /\ op = NoOp

AllowCall == \E dev \in CallerDevices, d \in Durations, perr \in ProviderResults : Allow(dev, d, perr)
DenyCall == \E dev \in CallerDevices, perr \in ProviderResults : Deny(dev, perr)
StatusCall == \E dev \in CallerDevices : Status(dev)
TimerFires == \E perr \in ProviderResults : AutoDeny(perr)

NextDiscovery ==
    \/ AllowCall
    \/ DenyCall
    \/ StatusCall
    \/ TimerFires
    \/ Tick

SpecDiscovery == InitDiscovery /\ [][NextDiscovery]_vars

\* The timer of the window runs when it is due, and time passes.
SpecDiscoveryFair == SpecDiscovery /\ WF_vars(TimerFires) /\ WF_vars(Tick)

\* The discovery state is as the operation found it.
DiscoveryUntouched ==
    /\ discovering = op.before.discovering
    /\ allowExpiresAt = op.before.allowExpiresAt
    /\ timerArmed = op.before.timerArmed
    /\ events = op.before.events

\* C7: Allow, Deny and Status for a device that is not the gateway's Self
\* device return NotSelfDevice, call neither PermitJoin nor DenyJoin, enqueue
\* nothing and leave the discovering flag and the expiry as they were.
C7_NotSelfDevice ==
    (op.name \in {"Allow", "Deny", "Status"} /\ op.device.identifier # self.identifier) =>
        /\ op.err = "NotSelfDevice"
        /\ op.calls = <<>>
        /\ DiscoveryUntouched

\* C7 witness: Deny(da.Device{}) was rejected while joining was permitted.
C7_Witness ==
    /\ op.name = "Deny" /\ op.device = ZeroDevice /\ op.err = "NotSelfDevice"
    /\ discovering

\* C8: when PermitJoin / DenyJoin fails, Allow / Deny on Self returns that
\* error and the discovery state is as before: no flag or expiry change and
\* no event enqueued.
C8_ProviderError ==
    (op.name \in {"Allow", "Deny"} /\ op.device.identifier = self.identifier
        /\ op.providerErr # "nil") =>
        /\ op.err = op.providerErr
        /\ DiscoveryUntouched
        /\ (op.name = "Deny" /\ op.before.discovering) => StatusNow.discovering
        /\ (op.name = "Allow" /\ ~op.before.discovering) => ~StatusNow.discovering

\* C8 witness: a Deny on Self failed while joining was permitted.
C8_Witness ==
    /\ op.name = "Deny" /\ op.device = self /\ op.providerErr = "deny join failure"
    /\ op.before.discovering /\ op.before.timerArmed

\* Allow / Deny on Self went through.
Succeeded(name) ==
    /\ op.name = name
    /\ op.device.identifier = self.identifier
    /\ op.providerErr = "nil"

\* C9 as claimed: after a successful Allow(self, duration) PermitJoin(true)
\* was called, Status reports discovering with a remaining duration of at
\* most duration, and exactly one DeviceDiscoveryAllowed was enqueued.
C9_AsClaimed ==
    Succeeded("Allow") =>
        /\ op.err = "nil"
        /\ op.calls = <<"PermitJoin(true)">>
        /\ StatusNow.discovering
        /\ StatusNow.remaining <= op.duration
        /\ events = Append(op.before.events, DeviceDiscoveryAllowed(op.duration))

\* C9 amended: after a successful Allow(self, duration) PermitJoin(true) was
\* called, Status reports discovering with a remaining duration of at most
\* the larger of duration and the remaining duration before the call, and the
\* DeviceDiscoveryAllowed event was enqueued once if the queue held fewer
\* than EventsCapacity events, and dropped if it was full.
C9_Allow ==
    Succeeded("Allow") =>
        /\ op.err = "nil"
        /\ op.calls = <<"PermitJoin(true)">>
        /\ StatusNow.discovering
        /\ StatusNow.remaining <= Max(op.duration, op.before.status.remaining)
        /\ IF Len(op.before.events) < EventsCapacity
              THEN events = Append(op.before.events, DeviceDiscoveryAllowed(op.duration))
              ELSE events = op.before.events

\* C9 witness: a successful Allow on Self whose event was enqueued.
C9_Witness ==
    /\ Succeeded("Allow")
    /\ op.duration = MaxDuration
    /\ events = Append(op.before.events, DeviceDiscoveryAllowed(op.duration))

\* C10 as claimed: after a successful Deny(self), from any discovery state,
\* DenyJoin was called, discovering is false, the expiry is cleared, no
\* auto-deny is pending and DeviceDiscoveryDenied was enqueued.
C10_AsClaimed ==
    Succeeded("Deny") =>
        /\ op.err = "nil"
        /\ op.calls = <<"DenyJoin">>
        /\ ~StatusNow.discovering
        /\ allowExpiresAt = 0
        /\ ~ENABLED TimerFires
        /\ events = Append(op.before.events, DeviceDiscoveryDenied)

\* C10 amended: as claimed, except that DeviceDiscoveryDenied is enqueued
\* only if the queue held fewer than EventsCapacity events and is dropped if
\* it was full.
C10_Deny ==
    Succeeded("Deny") =>
        /\ op.err = "nil"
        /\ op.calls = <<"DenyJoin">>
        /\ ~StatusNow.discovering
        /\ StatusNow.remaining = 0
        /\ allowExpiresAt = 0
        /\ ~ENABLED TimerFires
        /\ IF Len(op.before.events) < EventsCapacity
              THEN events = Append(op.before.events, DeviceDiscoveryDenied)
              ELSE events = op.before.events

\* C10 witness: a successful Deny right after Allow(self, 0): the window was
\* open with its expiry at the current time and the timer still pending.
C10_Witness ==
    /\ Succeeded("Deny")
    /\ op.before.discovering /\ op.before.timerArmed
    /\ op.before.allowExpiresAt = now
    /\ Len(events) = Len(op.before.events) + 1

(* ----------------------- The window of discovery ----------------------- *)

\* The window closes in this step.
WindowCloses == discovering /\ ~discovering'

\* What the timer of the window did when it fired.
ExpiryEffect ==
    op.name = "AutoDeny" =>
        /\ op.calls = <<"DenyJoin">>
        /\ op.before.timerArmed /\ now >= op.before.allowExpiresAt
        /\ IF op.providerErr = "nil"
              THEN /\ ~discovering /\ ~timerArmed
                   /\ events \in {op.before.events,
                                  Append(op.before.events, DeviceDiscoveryDenied)}
              ELSE /\ discovering = op.before.discovering
                   /\ events = op.before.events

\* C11: after a successful Allow(self, d) joining is permitted with one timer
\* pending for an expiry no earlier than d from now; the window closes only
\* through a Deny or through the timer at or after the expiry; the timer calls
\* DenyJoin and, when that succeeds, clears the flag and emits no event other
\* than DeviceDiscoveryDenied; and with no further Allow or Deny the window is
\* eventually closed unless the timer's DenyJoin failed.
C11_AutoDeny ==
    /\ [](Succeeded("Allow") =>
             discovering /\ timerArmed /\ allowExpiresAt >= now + op.duration)
    /\ [](ExpiryEffect)
    /\ [][WindowCloses =>
             \/ Succeeded("Deny")'
             \/ op'.name = "AutoDeny" /\ now >= allowExpiresAt]_vars
    /\ (Succeeded("Allow") /\ opCount = MaxCalls /\ allowExpiresAt <= MaxTime)
          ~> (~discovering \/ (op.name = "AutoDeny" /\ op.providerErr # "nil"))

\* C11 witness: the timer has closed a window at its expiry, after time had
\* passed since the Allow, and its event is on the queue.
C11_Witness ==
    /\ op.name = "AutoDeny" /\ op.providerErr = "nil"
    /\ op.before.discovering /\ ~discovering
    /\ now > 1 /\ now = op.before.allowExpiresAt
    /\ events = Append(op.before.events, DeviceDiscoveryDenied)

\* C12: a successful Allow(self, d) made while joining is permitted leaves the
\* expiry at the later of the expiry it found and now + d, with joining still
\* permitted and the timer pending; and the timer never fires before the
\* expiry in force.
C12_Extension ==
    /\ (Succeeded("Allow") /\ op.before.discovering) =>
          /\ allowExpiresAt = Max(op.before.allowExpiresAt, now + op.duration)
          /\ discovering /\ timerArmed
    /\ ENABLED TimerFires <=> (timerArmed /\ now >= allowExpiresAt)
    /\ timerArmed => discovering

\* C12 witness: a second Allow whose own expiry is the earlier one, made
\* after the first.
C12_Witness ==
    /\ Succeeded("Allow") /\ op.before.discovering
    /\ now + op.duration < op.before.allowExpiresAt
    /\ now > 1
    /\ allowExpiresAt = op.before.allowExpiresAt

(* ------------------------ order of a node's removal -------------------- *)

\* The devices of the leaving node that the removal loop has dealt with.
RemovedSoFar ==
    {id \in SeqRange(PreDevices(hEvent.ieee)) : id \notin SeqRange(hDevs)}

\* C20: while a NodeLeaveEvent for a stored node is handled, internalNodeLeave
\* is published with the store as the iteration found it, the devices are
\* removed while the node is still stored, the node is removed after the last
\* of them; and no device ever resolves whose node is not stored.
C20_LeaveOrder ==
    /\ \A id \in DOMAIN devices : id.ieee \in DOMAIN nodes
    /\ hPc = "leave_call" =>
          /\ pub = <<>>
          /\ nodes = pre.nodes /\ devices = pre.devices
          /\ hEvent.ieee \in DOMAIN nodes
    /\ hPc = "leave_getDevices" =>
          /\ pub = <<internalNodeLeave(hEvent.ieee)>>
          /\ nodes = pre.nodes /\ devices = pre.devices
          /\ hEvent.ieee \in DOMAIN nodes
          /\ \A id \in SeqRange(nodes[hEvent.ieee].devices) : getDevice(id)
    /\ hPc = "leave_removeDevice" =>
          /\ pub = <<internalNodeLeave(hEvent.ieee)>>
          /\ hEvent.ieee \in DOMAIN nodes
          /\ DOMAIN devices = DOMAIN pre.devices \ RemovedSoFar
          /\ nodes[hEvent.ieee].devices = hDevs
    /\ (LeaveDone /\ hEvent.ieee \in DOMAIN pre.nodes) =>
          /\ ~getNode(hEvent.ieee)
          /\ DOMAIN devices = DOMAIN pre.devices \ SeqRange(PreDevices(hEvent.ieee))

\* C20 witness: the device of the leaving node has been removed and the node
\* is still stored, its removal being the step that remains.
C20_Witness ==
    /\ hPc = "leave_removeDevice" /\ hDevs = <<>>
    /\ Len(PreDevices(hEvent.ieee)) = 1
    /\ ~getDevice(PreDevices(hEvent.ieee)[1])
    /\ getNode(hEvent.ieee)

(* --------------------------------- Stop -------------------------------- *)

\* C17 as claimed: a Stop() that has been entered can always go on to return,
\* and when it returns the provider handler has terminated or was never
\* launched.
C17_AsClaimed ==
    /\ sPc = "send" => ENABLED StopSend
    /\ op.name = "Stop" => op.handler \in {"off", "returned"}

(* ----------------------- errors of provider.ReadEvent ------------------ *)

\* The handler leaves provider.ReadEvent with the given error.
ReadEnds(err) == hPc = "read" /\ hPc' # "read" /\ hErr' = err

\* The handler leaves the select at the end of an iteration whose read ended
\* with ContextExpired.
TimeoutIterationEnds == hPc = "select" /\ hPc' # "select" /\ hErr = "ContextExpired"

\* An unexpected error ends the handler where it stands: nothing is stored,
\* removed or published for the value that came with it, and once the handler
\* has returned the stores stay as they are.
FatalTerminates ==
    /\ ReadEnds("fatal") =>
          hPc' = "returned" /\ UNCHANGED storeVars /\ pub' = <<>>
    /\ hPc = "returned" => hPc' = "returned" /\ UNCHANGED <<storeVars, pub>>

\* A read that timed out changes nothing and goes to the end of the iteration.
TimeoutDispatchesNothing ==
    ReadEnds("ContextExpired") =>
        hPc' = "select" /\ UNCHANGED storeVars /\ pub' = <<>>

\* C21 as claimed: an error other than ContextExpired terminates the handler
\* without dispatching the value returned with it and the stores do not
\* change afterwards; a ContextExpired result dispatches nothing, changes no
\* state, and the loop continues with the next read.
C21_AsClaimed ==
    [][/\ FatalTerminates
       /\ TimeoutDispatchesNothing
       /\ TimeoutIterationEnds =>
             hPc' = "read" /\ UNCHANGED <<storeVars, pub, stopSignal>>]_vars

\* C21: an error other than ContextExpired terminates the handler without
\* dispatching the value returned with it and the stores do not change
\* afterwards; a ContextExpired result dispatches nothing and changes no
\* store, and the iteration ends at the select like any other: the loop
\* continues with the next read unless a stop signal is buffered, which the
\* handler then takes and returns.
C21_ReadErrors ==
    [][/\ FatalTerminates
       /\ TimeoutDispatchesNothing
       /\ TimeoutIterationEnds =>
             /\ UNCHANGED <<storeVars, pub>>
             /\ IF stopSignal > 0
                   THEN hPc' = "returned" /\ stopSignal' = stopSignal - 1
                   ELSE hPc' = "read" /\ stopSignal' = stopSignal]_vars

\* The handler has returned on an unexpected error that came with a join
\* event of a node that is not stored.
C21_Witness ==
    /\ hPc = "returned"
    /\ hErr = "fatal"
    /\ hEvent.type = "join"
    /\ ~getNode(hEvent.ieee)

(* -------------------- HasProductInformation specification ------------- *)

\* The provider reports joins and leaves of the node that is enumerated.
EnumReadResults ==
    {<<NodeJoinEvent(EnumAddr), "nil">>, <<NodeLeaveEvent(EnumAddr), "nil">>,
     <<NoEvent, "ContextExpired">>}

\* A gateway whose Start() succeeded. nextTransactionSequence is not under
\* src/: it takes the node mutex, as the spec has it, or guards the counter
\* by other means.
InitProductInfo ==
    /\ self = StartSelf
    /\ started = "started"
    /\ nodes = <<>>
    /\ devices = <<>>
    /\ hPc = "read"
    /\ hEvent = NoEvent
    /\ hErr = "nil"
    /\ hDevs = <<>>
    /\ pre = [nodes |-> <<>>, devices |-> <<>>]
    /\ pub = <<>>
    /\ dPc = "idle"
    /\ dTodo = {}
    /\ dResult = <<>>
    /\ dStarted = FALSE
    /\ events = <<>>
    /\ sendCount = 0
    /\ dropped = {}
    /\ delivered = <<>>
    /\ rPc = [r \in Readers |-> "idle"]
    /\ rCtxDone = [r \in Readers |-> FALSE]
    /\ discovering = FALSE
    /\ allowExpiresAt = 0
    /\ timerArmed = FALSE
    /\ now = 1
    /\ opCount = 0
    /\ stopSignal = 0
    /\ cancelled = FALSE
    /\ sPc = "idle"
    /\ stopCalls = 0
    /\ dispatchedAfterStop = 0
    /\ ProductInit
    /\ seqUnderMutex \in BOOLEAN
    /\ op = NoOp

HandlerReadNode == HandlerReadFrom(EnumReadResults)
Enumerate ==
    \E descriptions \in DescriptionChoices, eps \in EndpointChoices :
        EnumerateNode(EnumAddr, descriptions, eps)
ReadAttributesOk == \E records \in Responses : ReadAttributesReturns(records)

NextProductInfo ==
    \/ HandlerReadNode
    \/ JoinGetNode
    \/ JoinAddNode
    \/ JoinGetDevices
    \/ JoinAddDevice
    \/ JoinCall
    \/ LeaveGetNode
    \/ LeaveCall
    \/ LeaveGetDevices
    \/ LeaveRemoveDevice
    \/ LeaveRemoveNode
    \/ HandlerSelect
    \/ Enumerate
    \/ EnumLockDevice
    \/ EnumSequence
    \/ ReadAttributesFails
    \/ ReadAttributesOk
    \/ EnumFinish
    \/ EnumReturn
    \/ HostObtain
    \/ HostForeign
    \/ ProductInformationCall
    \/ ProductInformationReturn

SpecProductInfo == InitProductInfo /\ [][NextProductInfo]_vars

(* ------------------- Stop() and the provider handler ------------------ *)

\* What the provider reports while the gateway is stopped: joins, leaves and
\* messages of the node that is enumerated, the read timeout (which is also
\* what a read on the cancelled context ends with), or an unexpected error.
StopReadResults ==
    EnumReadResults \cup
    {<<NodeIncomingMessageEvent(EnumAddr), "nil">>, <<NoEvent, "fatal">>}

HandlerReadStop == HandlerReadFrom(StopReadResults)

\* The steps of the provider handler after a read.
HandlerDispatch ==
    \/ JoinGetNode
    \/ JoinAddNode
    \/ JoinGetDevices
    \/ JoinAddDevice
    \/ JoinCall
    \/ LeaveGetNode
    \/ LeaveCall
    \/ LeaveGetDevices
    \/ LeaveRemoveDevice
    \/ LeaveRemoveNode
    \/ HandlerIncoming

\* ReadAttributes returns a response without records.
ReadAttributesEmpty == ReadAttributesReturns(<<>>)

\* The steps of NodeEnumerationCallback once it has been called.
CallbackStep ==
    \/ EnumLockDevice
    \/ EnumSequence
    \/ ReadAttributesFails
    \/ ReadAttributesEmpty
    \/ EnumFinish
    \/ EnumReturn

\* A started gateway with its handler, a host that calls Stop(), and the
\* enumeration of the node that joins.
NextStop ==
    \/ HandlerReadStop
    \/ HandlerDispatch
    \/ HandlerSelect
    \/ StopCall
    \/ StopSend
    \/ StopReturn
    \/ Enumerate
    \/ CallbackStep

\* Every goroutine that can take a step takes one: ReadEvent returns (at the
\* latest on its 250 ms timeout or when its context is cancelled), every
\* attempt of ReadAttributes ends, and Stop() goes on when it can. A
\* sync.RWMutex admits no new reader while a writer waits, so a handler that
\* waits for a node's mutex gets it once it is free at all: its steps are
\* strongly fair.
SpecStop ==
    /\ InitProductInfo
    /\ [][NextStop]_vars
    /\ WF_vars(HandlerReadStop)
    /\ SF_vars(HandlerDispatch)
    /\ WF_vars(HandlerSelect)
    /\ WF_vars(StopSend)
    /\ WF_vars(StopReturn)
    /\ WF_vars(CallbackStep)

(* -------------------- properties of HasProductInformation ------------- *)

\* The records of a response for one attribute.
RecordsFor(records, attr) == {i \in 1 .. Len(records) : records[i].identifier = attr}

\* The last record of a response for an attribute it has a record for.
LastRecordFor(records, attr) ==
    records[CHOOSE i \in RecordsFor(records, attr) :
               \A j \in RecordsFor(records, attr) : j <= i]

\* What a field and its bit are after a response, given what they were.
ExpectedString(old, records, attr) ==
    IF RecordsFor(records, attr) = {} THEN old
    ELSE IF LastRecordFor(records, attr).status = StatusSuccess
            THEN LastRecordFor(records, attr).value
            ELSE ""
ExpectedBit(old, records, attr) ==
    IF RecordsFor(records, attr) = {} THEN old
    ELSE LastRecordFor(records, attr).status = StatusSuccess

ExpectedInformation(old, records) ==
    [manufacturer |-> ExpectedString(old.manufacturer, records, ManufacturerNameAttr),
     name |-> ExpectedString(old.name, records, ModelIdentifierAttr),
     present |->
        (IF ExpectedBit(ManufacturerBit \in old.present, records, ManufacturerNameAttr)
            THEN {ManufacturerBit} ELSE {}) \cup
        (IF ExpectedBit(NameBit \in old.present, records, ModelIdentifierAttr)
            THEN {NameBit} ELSE {})]

\* The callback has applied a response and still holds the device.
ResponseApplied == ePc = "finish" /\ eResp.kind = "read"

\* A ProductInformation call returns the record of a stored device.
ReturnsStored == pPc = "rlock" /\ pPc' = "idle" /\ ~pDev.orphan

\* C13: when the callback has got a response for a device, each of the two
\* attributes the response has a record for holds the returned string with
\* its bit set if the status was 0, and the empty string with its bit cleared
\* otherwise, and an attribute without a record is as it was; and a
\* ProductInformation call that returns for a stored device returns the
\* record the device holds then.
C13_ReadApplied ==
    /\ [](ResponseApplied =>
             productInformation[eDev] =
                ExpectedInformation(eBefore.productInformation, eResp.records))
    /\ [][ReturnsStored =>
             /\ op'.err = "nil"
             /\ op'.info = productInformation[pDev.identifier]]_vars

\* C13 witness: for a device that had both strings, a response with the
\* manufacturer and a failed name has been applied, while a ProductInformation
\* call waits for the device.
C13_Witness ==
    /\ ResponseApplied
    /\ eResp.records = <<ReadRecord(ManufacturerNameAttr, StatusSuccess, "Acme"),
                         ReadRecord(ModelIdentifierAttr, StatusUnsupportedAttribute, "")>>
    /\ eBefore.productInformation.name = "Bulb1"
    /\ productInformation[eDev] =
          [manufacturer |-> "Acme", name |-> "", present |-> {ManufacturerBit}]
    /\ pPc = "rlock" /\ pDev.identifier = eDev

\* One of the device's endpoints lists the Basic cluster in its description.
ListsBasic(a, id) ==
    \E i \in 1 .. Len(endpoints[id]) :
        /\ endpoints[id][i] \in DOMAIN endpointDescriptions[a]
        /\ BasicId \in SeqRange(endpointDescriptions[a][endpoints[id][i]])

\* C14: when the callback has dealt with a device, a read was attempted if
\* and only if one of the device's endpoints lists cluster 0x0000, and then,
\* and only then, the capability was added to what the device had, whether
\* the read returned records, of whatever status, or every attempt failed;
\* without a response the product information is as it was; and the callback
\* returns nil.
C14_CapabilityAttached ==
    /\ op.name = "enumerated" =>
          /\ ListsBasic(eNode, eDev) <=> eFound.found
          /\ eFound.found <=> eTries >= 1
          /\ devices[eDev].capabilities =
                eBefore.capabilities \cup
                   (IF ListsBasic(eNode, eDev) THEN {HasProductInformationFlag} ELSE {})
          /\ eResp.kind = "failed" => eTries = NetworkRetries
          /\ eResp.kind # "read" =>
                productInformation[eDev] = eBefore.productInformation
          /\ eFound.found <=> eResp.kind \in {"read", "failed"}
    /\ op.name = "NodeEnumerationCallback" => op.err = "nil"

\* C14 witness: every attempt of the read failed for a device that had no
\* capability, and the device has the capability now.
C14_Witness ==
    /\ op.name = "enumerated"
    /\ eResp.kind = "failed"
    /\ eBefore.capabilities = {}
    /\ devices[eDev].capabilities = {HasProductInformationFlag}

\* C15 as claimed: a ProductInformation call ends with
\* DeviceDoesNotBelongToGateway and an empty record for a device of another
\* gateway, otherwise with DeviceDoesNotHaveCapability and an empty record
\* for a device without the capability, and otherwise with a record and no
\* error.
C15_AsClaimed ==
    op.name = "ProductInformation" =>
        IF DeviceDoesNotBelongToGateway(hostDev)
           THEN op.err = "DeviceDoesNotBelongToGateway" /\ op.info = ZeroProductInformation
        ELSE IF ~HasCapability(hostDev, HasProductInformationFlag)
           THEN op.err = "DeviceDoesNotHaveCapability" /\ op.info = ZeroProductInformation
        ELSE op.err = "nil" /\ op.info # <<>>

\* C16 as claimed: a ProductInformation call for a device of this gateway
\* that is no longer stored ends with one of the two contract errors.
C16_AsClaimed ==
    (op.name = "ProductInformation" /\ ~DeviceDoesNotBelongToGateway(hostDev)
        /\ ~op.stored) =>
        op.err \in {"DeviceDoesNotBelongToGateway", "DeviceDoesNotHaveCapability"}

\* C18 as claimed: while the callback waits for ReadAttributes it holds
\* neither the node's nor the device's mutex, so a ProductInformation call
\* for the device and the removal of the device can go on.
C18_AsClaimed ==
    ePc = "awaiting" =>
        /\ ~NodeMutexReadHeld(eNode)
        /\ ~DeviceMutexHeld(eDev)
        /\ pPc = "rlock" => ENABLED ProductInformationReturn
        /\ (hPc = "leave_removeDevice" /\ hDevs # <<>>) => ENABLED LeaveRemoveDevice

\* C19 as claimed: the node mutex is never asked for by a task that holds a
\* device mutex or the node mutex itself, and the callback can always go on
\* from its call of nextTransactionSequence.
C19_AsClaimed ==
    /\ NodeMutexRequested => ~DeviceMutexHeld(eDev) /\ ~NodeMutexReadHeld(eNode)
    /\ ePc = "attempt" => ENABLED EnumSequence

(* ------------------ termination of the provider handler --------------- *)

\* The stop channel is received from only in the select that ends an
\* iteration, and a handler that is dispatching an event does not return.
ExaminedAtEndOfIteration ==
    /\ stopSignal' < stopSignal => hPc = "select" /\ hPc' = "returned"
    /\ ~BetweenIterations => hPc' # "returned"

\* C22 as claimed: once Stop() has sent its signal and cancelled the context
\* the provider handler eventually returns; the signal is taken only at the
\* end of an iteration, so a dispatch in progress is never cut short, and at
\* most one event is dispatched after the signal was sent.
C22_AsClaimed ==
    /\ cancelled ~> hPc = "returned"
    /\ [][ExaminedAtEndOfIteration]_vars
    /\ [](dispatchedAfterStop <= 1)

\* What holds of the handler and Stop() by themselves: with a callback that
\* does not wait for the node mutex it holds, the handler returns after
\* Stop(), and in every case the signal is taken only at the end of an
\* iteration and at most one event is dispatched after it was sent.
HandlerStopsUnlessBlocked ==
    /\ (cancelled /\ ~seqUnderMutex) ~> hPc = "returned"
    /\ [][ExaminedAtEndOfIteration]_vars
    /\ [](dispatchedAfterStop <= 1)

\* The state the handler does not leave: Stop() has returned, the handler
\* waits to remove a device of the node whose read lock the callback holds,
\* and the callback waits for that node's mutex itself.
HandlerBlockedAfterStop ==
    /\ cancelled
    /\ hPc = "leave_removeDevice"
    /\ hDevs # <<>>
    /\ NodeMutexReadHeld(Head(hDevs).ieee)
    /\ NodeMutexRequested
    /\ ~ENABLED HandlerDispatch
    /\ ~ENABLED CallbackStep

====
